---- MODULE Spec2Model ----
(***************************************************************************)
(* Room coordination and event relay of src/server.js: the /update         *)
(* namespace (room registry, membership, wishlist) and the /chat namespace *)
(* (delivery groups, chat relay, voice-peer signalling).                   *)
(*                                                                         *)
(* One action is one socket.io event handler run to completion (Node runs  *)
(* handlers one at a time).  `emitted` holds, in the order of the code,    *)
(* what the last handler emitted; `last` names that handler, its socket    *)
(* and its argument.                                                       *)
(***************************************************************************)
EXTENDS Integers, Sequences, FiniteSets, TLC

\* ---------------------------------------------------------------- bounds
NumSockets == 2        \* connections offered to the /update namespace
NumChatSockets == 2    \* connections offered to the /chat namespace

\* socket.id: an opaque string, unique per connection.
SocketId(i) == "sid" \o ToString(i)
Sockets == {SocketId(i) : i \in 1..NumSockets}

\* Room codes: the strings generateRoomCode(ROOM_CODE_LENGTH) returns and the
\* strings a client sends with joinRoom.
Codes == {"ABC123", "XYZ789"}
NoCode == ""           \* userData.roomCode before any createRoom or joinRoom

\* In /chat a room name is any string a client sends.  The ids of the chat
\* sockets are room names too (socket.io joins every socket to the room named
\* by its id), so ids and codes share one space of strings.
ChatSockets == {SocketId(i) : i \in 1..NumChatSockets}
ChatCodes == {"ABC123"}
ChatRoomNames == ChatSockets \cup ChatCodes

DefaultNames == {"Player7"}             \* `Player${Math.floor(Math.random() * 1000)}`
\* Arguments of setName.  No handler of /update reads userData.name, so one
\* value is offered there; /chat sends it out in broadcastMessage.
UpdateNames == {"Player7"}
Names == {"", "alice"}
Messages == {"hi", "yo"}                \* texts of sendMessage
NoWishlist == <<"undefined">>           \* the wishlist field of a room nobody wrote to
Wishlists == {<<>>, <<"apple">>, <<"apple", "pear">>}   \* arguments of updateWishlist

VARIABLES
    gameRooms,    \* the Map gameRooms: room code -> GameRoom
    upStatus,     \* per /update socket: "idle", "connected" or "disconnected"
    upData,       \* per /update socket: socket.userData = [name, roomCode]
    upRooms,      \* per /update socket: the adapter rooms it joined by socket.join
    chatStatus,   \* per /chat socket: "idle", "connected" or "disconnected"
    chatData,     \* per /chat socket: socket.userData = [name]
    chatRooms,    \* per /chat socket: socket.rooms, its own id included
    emitted,      \* the emissions of the last handler, in order
    last,         \* the last handler: [op, socket, arg]
    issued        \* history: every code a createRoom acknowledged so far

vars == <<gameRooms, upStatus, upData, upRooms, chatStatus, chatData, chatRooms,
          emitted, last, issued>>
updateVars == <<gameRooms, upStatus, upData, upRooms, issued>>
chatVars == <<chatStatus, chatData, chatRooms>>

\* ------------------------------------------------------------- emissions
\* One emit call: the event, the set of sockets it is delivered to, the payload.
Emit(event, to, data) == [event |-> event, to |-> to, data |-> data]
Handler(op, socket, arg) == [op |-> op, socket |-> socket, arg |-> arg, threw |-> FALSE]
Thrown(op, socket, arg) == [op |-> op, socket |-> socket, arg |-> arg, threw |-> TRUE]

\* ------------------------------------------------------ room.js: GameRoom
GameRoom(code) == [players |-> {}, wishlist |-> NoWishlist]
\* Mutant: adding a socket that is already a member drops it.
addPlayer_toggle(room, socket) ==
    [room EXCEPT !.players = IF socket \in @ THEN @ \ {socket} ELSE @ \cup {socket}]

addPlayer(room, socket) == [room EXCEPT !.players = @ \cup {socket}]
removePlayer(room, socket) == [room EXCEPT !.players = @ \ {socket}]
numPlayers(room) == Cardinality(room.players)

\* Map.set and Map.delete on gameRooms.
MapSet(m, k, v) == [x \in (DOMAIN m) \cup {k} |-> IF x = k THEN v ELSE m[x]]
MapDelete(m, k) == [x \in (DOMAIN m) \ {k} |-> m[x]]

Init ==
    /\ gameRooms = [c \in {} |-> GameRoom(c)]
    /\ upStatus = [s \in Sockets |-> "idle"]
    /\ upData = [s \in Sockets |-> [name |-> "", roomCode |-> NoCode]]
    /\ upRooms = [s \in Sockets |-> {}]
    /\ chatStatus = [s \in ChatSockets |-> "idle"]
    /\ chatData = [s \in ChatSockets |-> [name |-> ""]]
    /\ chatRooms = [s \in ChatSockets |-> {}]
    /\ emitted = <<>>
    /\ last = Handler("init", "", "")
    /\ issued = {}

\* ------------------------------------------------------ /update namespace
\* updateNameSpace.adapter.rooms.get(room): the connected sockets that joined it.
UpdateRoomSockets(room) == {s \in Sockets : upStatus[s] = "connected" /\ room \in upRooms[s]}
\* Every socket connected to the namespace (updateNameSpace.emit).
UpdateAllSockets == {s \in Sockets : upStatus[s] = "connected"}

\* updateNameSpace.on('connection'): a fresh socket with its userData.
UpdateConnection(socket) ==
    /\ upStatus[socket] = "idle"
    /\ \E name \in DefaultNames :
         upData' = [upData EXCEPT ![socket] = [name |-> name, roomCode |-> NoCode]]
    /\ upStatus' = [upStatus EXCEPT ![socket] = "connected"]
    /\ emitted' = <<>>
    /\ last' = Handler("connection", socket, "")
    /\ UNCHANGED <<gameRooms, upRooms, issued, chatVars>>

SetID(socket) ==
    /\ upStatus[socket] = "connected"
    /\ emitted' = <<Emit("setID", UpdateAllSockets, socket)>>
    /\ last' = Handler("setID", socket, "")
    /\ UNCHANGED <<updateVars, chatVars>>

UpdateSetName(socket, name) ==
    /\ upStatus[socket] = "connected"
    /\ upData' = [upData EXCEPT ![socket].name = name]
    /\ emitted' = <<>>
    /\ last' = Handler("setName", socket, name)
    /\ UNCHANGED <<gameRooms, upStatus, upRooms, issued, chatVars>>

\* gameRooms.has(roomCode)
HasRoom(roomCode) == roomCode \in DOMAIN gameRooms

\* Mutant: the refusal goes out with updateNameSpace.emit instead of socket.emit.
InvalidRoomCodeEmits_toAll(socket) ==
    <<Emit("invalidRoomCode", UpdateAllSockets, "Not a valid room code.")>>

\* What joinRoom emits for a code that is no key of gameRooms.
InvalidRoomCodeEmits(socket) ==
    <<Emit("invalidRoomCode", {socket}, "Not a valid room code.")>>

\* `wishlist && wishlist.length > 0`
WishlistExists(wishlist) == wishlist # NoWishlist /\ Len(wishlist) > 0

\* Mutant: the catch-up tests only that the field is set, not its length.
JoinRoomEmits_anyWishlist(socket, roomCode, room) ==
    <<Emit("generateCode", {socket}, roomCode)>>
        \o (IF room.wishlist # NoWishlist
            THEN <<Emit("wishlistUpdated", {socket}, room.wishlist)>>
            ELSE <<>>)

\* What joinRoom emits on success: the acknowledgment, then the catch-up.
JoinRoomEmits(socket, roomCode, room) ==
    <<Emit("generateCode", {socket}, roomCode)>>
        \o (IF WishlistExists(room.wishlist)
            THEN <<Emit("wishlistUpdated", {socket}, room.wishlist)>>
            ELSE <<>>)

JoinRoom(socket, roomCode) ==
    /\ upStatus[socket] = "connected"
    /\ last' = Handler("joinRoom", socket, roomCode)
    /\ IF ~HasRoom(roomCode)
       THEN /\ emitted' = InvalidRoomCodeEmits(socket)
            /\ UNCHANGED <<updateVars, chatVars>>
       ELSE /\ upData' = [upData EXCEPT ![socket].roomCode = roomCode]
            /\ gameRooms' = MapSet(gameRooms, roomCode, addPlayer(gameRooms[roomCode], socket))
            /\ upRooms' = [upRooms EXCEPT ![socket] = @ \cup {roomCode}]
            /\ emitted' = JoinRoomEmits(socket, roomCode, gameRooms'[roomCode])
            /\ UNCHANGED <<upStatus, issued, chatVars>>

\* The strings generateRoomCode(ROOM_CODE_LENGTH) can return.
generateRoomCode == Codes

\* Mutant: the first generated code is taken without the retry loop.
FreshCodes_noLoop == generateRoomCode

\* The codes the loop `while (gameRooms.has(newCode))` can leave with.
FreshCodes == {newCode \in generateRoomCode : ~HasRoom(newCode)}

\* Mutant: the creator is not added to the room it created.
CreatedRoom_noCreator(socket, newCode) == GameRoom(newCode)

\* The room createRoom registers: a new GameRoom with the creator added.
CreatedRoom(socket, newCode) == addPlayer(GameRoom(newCode), socket)

CreateRoom(socket, newCode) ==
    /\ upStatus[socket] = "connected"
    /\ newCode \in FreshCodes
    /\ upData' = [upData EXCEPT ![socket].roomCode = newCode]
    /\ gameRooms' = MapSet(gameRooms, newCode, CreatedRoom(socket, newCode))
    /\ upRooms' = [upRooms EXCEPT ![socket] = @ \cup {newCode}]
    /\ emitted' = <<Emit("generateCode", {socket}, newCode)>>
    /\ last' = Handler("createRoom", socket, newCode)
    /\ issued' = issued \cup {newCode}
    /\ UNCHANGED <<upStatus, chatVars>>

\* Mutant: the new items are appended to the stored list.
SetWishlist_merge(room, wishlist) ==
    [room EXCEPT !.wishlist = IF @ = NoWishlist THEN wishlist ELSE @ \o wishlist]

\* `room.wishlist = wishlist`
SetWishlist(room, wishlist) == [room EXCEPT !.wishlist = wishlist]

\* updateNameSpace.to(roomCode).emit('wishlistUpdated', wishlist)
WishlistUpdatedEmits(roomCode, wishlist) ==
    <<Emit("wishlistUpdated", UpdateRoomSockets(roomCode), wishlist)>>

\* Mutant: the orphan update is answered with an error event.
OrphanUpdateEmits_error(socket) == <<Emit("invalidRoomCode", {socket}, "Not in a room.")>>

\* What updateWishlist emits when the socket has no room: nothing (a log line).
OrphanUpdateEmits(socket) == <<>>

UpdateWishlist(socket, wishlist) ==
    /\ upStatus[socket] = "connected"
    /\ last' = Handler("updateWishlist", socket, wishlist)
    /\ LET roomCode == upData[socket].roomCode IN
       IF roomCode = NoCode
       THEN /\ emitted' = OrphanUpdateEmits(socket)
            /\ UNCHANGED <<updateVars, chatVars>>
       ELSE IF ~HasRoom(roomCode)
       THEN /\ emitted' = <<>>
            /\ UNCHANGED <<updateVars, chatVars>>
       ELSE /\ gameRooms' = MapSet(gameRooms, roomCode, SetWishlist(gameRooms[roomCode], wishlist))
            /\ emitted' = WishlistUpdatedEmits(roomCode, wishlist)
            /\ UNCHANGED <<upStatus, upData, upRooms, issued, chatVars>>

\* Mutant: the emptied room is never deleted.
RoomsAfterLeave_neverDelete(socket, roomCode) ==
    MapSet(gameRooms, roomCode, removePlayer(gameRooms[roomCode], socket))

\* Mutant: the room is deleted although members remain.
RoomsAfterLeave_alwaysDelete(socket, roomCode) == MapDelete(gameRooms, roomCode)

\* The registry after the 'disconnecting' handler of a socket affiliated to roomCode.
RoomsAfterLeave(socket, roomCode) ==
    LET room == removePlayer(gameRooms[roomCode], socket) IN
    IF numPlayers(room) = 0
    THEN MapDelete(gameRooms, roomCode)
    ELSE MapSet(gameRooms, roomCode, room)

\* The transport closes the socket: the 'disconnecting' handler, then socket.io
\* takes the socket out of its adapter rooms, then 'disconnect' (a log line).
Disconnecting(socket) ==
    /\ upStatus[socket] = "connected"
    /\ LET roomCode == upData[socket].roomCode IN
       /\ IF roomCode = NoCode
          THEN gameRooms' = gameRooms /\ last' = Handler("disconnecting", socket, roomCode)
          ELSE IF ~HasRoom(roomCode)
          THEN gameRooms' = gameRooms /\ last' = Thrown("disconnecting", socket, roomCode)
          ELSE /\ gameRooms' = RoomsAfterLeave(socket, roomCode)
               /\ last' = Handler("disconnecting", socket, roomCode)
    /\ upStatus' = [upStatus EXCEPT ![socket] = "disconnected"]
    /\ upRooms' = [upRooms EXCEPT ![socket] = {}]
    /\ emitted' = <<>>
    /\ UNCHANGED <<upData, issued, chatVars>>

UpdateNext ==
    \/ \E socket \in Sockets : UpdateConnection(socket)
    \/ \E socket \in Sockets : SetID(socket)
    \/ \E socket \in Sockets, name \in UpdateNames : UpdateSetName(socket, name)
    \/ \E socket \in Sockets, roomCode \in Codes \cup {NoCode} : JoinRoom(socket, roomCode)
    \/ \E socket \in Sockets, newCode \in Codes : CreateRoom(socket, newCode)
    \/ \E socket \in Sockets, wishlist \in Wishlists : UpdateWishlist(socket, wishlist)
    \/ \E socket \in Sockets : Disconnecting(socket)

SpecUpdate == Init /\ [][UpdateNext]_vars

\* -------------------------------------------------------- /chat namespace
\* chatNameSpace.adapter.rooms.get(room): the connected sockets in that room.
ChatRoomSockets(rooms, room) ==
    {s \in ChatSockets : chatStatus[s] = "connected" /\ room \in rooms[s]}

\* The sockets a broadcast to(room).except(exceptRoom) reaches: the adapter
\* leaves out every socket that is in the excepted room.
BroadcastTargets(rooms, room, exceptRoom) ==
    ChatRoomSockets(rooms, room) \ ChatRoomSockets(rooms, exceptRoom)

\* chatNameSpace.on('connection'): socket.io puts the socket in the room named
\* by its id; the handler sets userData.
ChatConnection(socket) ==
    /\ chatStatus[socket] = "idle"
    /\ chatStatus' = [chatStatus EXCEPT ![socket] = "connected"]
    /\ chatData' = [chatData EXCEPT ![socket] = [name |-> ""]]
    /\ chatRooms' = [chatRooms EXCEPT ![socket] = {socket}]
    /\ emitted' = <<>>
    /\ last' = Handler("chat:connection", socket, "")
    /\ UNCHANGED updateVars

ChatSetName(socket, name) ==
    /\ chatStatus[socket] = "connected"
    /\ chatData' = [chatData EXCEPT ![socket].name = name]
    /\ emitted' = <<>>
    /\ last' = Handler("chat:setName", socket, name)
    /\ UNCHANGED <<updateVars, chatStatus, chatRooms>>

\* Mutant: the join is made only for a code that is a key of the registry.
GenerateCode_validated(socket, roomCode) ==
    /\ chatStatus[socket] = "connected"
    /\ chatRooms' = [chatRooms EXCEPT ![socket] =
                        IF roomCode \in DOMAIN gameRooms THEN @ \cup {roomCode} ELSE @]
    /\ emitted' = <<>>
    /\ last' = Handler("chat:generateCode", socket, roomCode)
    /\ UNCHANGED <<updateVars, chatStatus, chatData>>

\* 'generateCode': socket.join(roomCode), with no look-up in gameRooms.
GenerateCode(socket, roomCode) ==
    /\ chatStatus[socket] = "connected"
    /\ chatRooms' = [chatRooms EXCEPT ![socket] = @ \cup {roomCode}]
    /\ emitted' = <<>>
    /\ last' = Handler("chat:generateCode", socket, roomCode)
    /\ UNCHANGED <<updateVars, chatStatus, chatData>>

\* chatNameSpace.to(roomName).except(socket.id)
SendMessageTargets(socket, roomName) == BroadcastTargets(chatRooms, roomName, socket)

SendMessage(socket, message, roomName) ==
    /\ chatStatus[socket] = "connected"
    /\ emitted' = <<Emit("broadcastMessage", SendMessageTargets(socket, roomName),
                         [id |-> socket, message |-> message,
                          name |-> chatData[socket].name])>>
    /\ last' = Handler("chat:sendMessage", socket, [message |-> message, roomName |-> roomName])
    /\ UNCHANGED <<updateVars, chatVars>>

\* Mutant: chatNameSpace.to(roomCode) instead of socket.to(roomCode).
NewVoicePeerTargets_withSelf(rooms, socket, roomCode) == ChatRoomSockets(rooms, roomCode)

\* socket.to(roomCode), evaluated after socket.join(roomCode): the room's
\* sockets except those in the room named by the joiner's id.
NewVoicePeerTargets(rooms, socket, roomCode) == BroadcastTargets(rooms, roomCode, socket)

\* [...chatNameSpace.adapter.rooms.get(roomCode) || []].filter((id) => id !== socket.id)
ExistingPeers(rooms, socket, roomCode) == ChatRoomSockets(rooms, roomCode) \ {socket}

JoinVoiceRoom(socket, roomCode) ==
    /\ chatStatus[socket] = "connected"
    /\ chatRooms' = [chatRooms EXCEPT ![socket] = @ \cup {roomCode}]
    /\ emitted' = <<Emit("newVoicePeer", NewVoicePeerTargets(chatRooms', socket, roomCode), socket),
                    Emit("existingVoicePeers", {socket}, ExistingPeers(chatRooms', socket, roomCode))>>
    /\ last' = Handler("chat:joinVoiceRoom", socket, roomCode)
    /\ UNCHANGED <<updateVars, chatStatus, chatData>>

\* The transport closes the socket: socket.io takes it out of every room, then
\* the 'disconnect' handler logs.
ChatDisconnect(socket) ==
    /\ chatStatus[socket] = "connected"
    /\ chatStatus' = [chatStatus EXCEPT ![socket] = "disconnected"]
    /\ chatRooms' = [chatRooms EXCEPT ![socket] = {}]
    /\ emitted' = <<>>
    /\ last' = Handler("chat:disconnect", socket, "")
    /\ UNCHANGED <<updateVars, chatData>>

ChatNext ==
    \/ \E socket \in ChatSockets : ChatConnection(socket)
    \/ \E socket \in ChatSockets, name \in Names : ChatSetName(socket, name)
    \/ \E socket \in ChatSockets, roomCode \in ChatRoomNames : GenerateCode(socket, roomCode)
    \/ \E socket \in ChatSockets, message \in Messages, roomName \in ChatRoomNames :
          SendMessage(socket, message, roomName)
    \/ \E socket \in ChatSockets, roomCode \in ChatRoomNames : JoinVoiceRoom(socket, roomCode)
    \/ \E socket \in ChatSockets : ChatDisconnect(socket)

SpecChat == Init /\ [][ChatNext]_vars

Next == UpdateNext \/ ChatNext

Spec == Init /\ [][Next]_vars

\* The /chat handlers with generateCode given only socket ids as room names
\* and joinVoiceRoom given only codes: a socket is then in the chat room of a
\* code exactly when it has joined it with joinVoiceRoom and is still connected.
VoiceNext ==
    \/ \E socket \in ChatSockets : ChatConnection(socket)
    \/ \E socket \in ChatSockets, name \in Names : ChatSetName(socket, name)
    \/ \E socket \in ChatSockets, roomCode \in ChatSockets : GenerateCode(socket, roomCode)
    \/ \E socket \in ChatSockets, message \in Messages, roomName \in ChatRoomNames :
          SendMessage(socket, message, roomName)
    \/ \E socket \in ChatSockets, roomCode \in ChatCodes : JoinVoiceRoom(socket, roomCode)
    \/ \E socket \in ChatSockets : ChatDisconnect(socket)

SpecVoice == Init /\ [][VoiceNext]_vars

\* The /update client whose handlers build the registry that the /chat
\* handlers run against in SpecRegistryChat.
Host == SocketId(1)

\* The /update handlers that write gameRooms, run by one client.
RegistryNext ==
    \/ UpdateConnection(Host)
    \/ \E newCode \in Codes : CreateRoom(Host, newCode)
    \/ \E roomCode \in Codes : JoinRoom(Host, roomCode)
    \/ \E wishlist \in Wishlists : UpdateWishlist(Host, wishlist)
    \/ Disconnecting(Host)

RegistryChatNext == RegistryNext \/ ChatNext

\* Both namespaces of one server process: every /chat handler interleaved with
\* the registry-writing /update handlers.
SpecRegistryChat == Init /\ [][RegistryChatNext]_vars

\* ================================================================ claims
\* The handler that made the step is last'; the state it ran in is unprimed.

\* ---- C1 (SpecUpdate)
\* C1: joinRoom(code) with a code that is no key of the registry leaves the
\* registry (keys, member sets, wishlists) and every socket's affiliation as
\* they were, and emits exactly one event, invalidRoomCode, to the caller alone.
C1_InvalidJoin ==
    [][(last'.op = "joinRoom" /\ last'.arg \notin DOMAIN gameRooms) =>
         /\ gameRooms' = gameRooms
         /\ upData' = upData
         /\ upRooms' = upRooms
         /\ Len(emitted') = 1
         /\ emitted'[1].event = "invalidRoomCode"
         /\ emitted'[1].to = {last'.socket}]_vars

\* A refused join by an affiliated caller while another socket is connected
\* and a room is registered.
C1_Witness ==
    /\ last.op = "joinRoom"
    /\ last.arg \notin DOMAIN gameRooms
    /\ DOMAIN gameRooms # {}
    /\ upData[last.socket].roomCode # NoCode
    /\ \E s \in Sockets \ {last.socket} : upStatus[s] = "connected"
    /\ Len(emitted) = 1 /\ emitted[1].event = "invalidRoomCode"

\* ---- C2 (SpecUpdate)
\* C2 as stated: no createRoom ever acknowledges a code that an earlier
\* createRoom acknowledged.
C2_PairwiseDistinctEver ==
    [][last'.op = "createRoom" => emitted'[1].data \notin issued]_vars

\* C2 amended: the code a createRoom acknowledges is no key of the registry at
\* the moment of the call and is a key right after it (so the codes of rooms
\* registered at the same time are pairwise distinct).
C2_FreshAmongLive ==
    [][last'.op = "createRoom" =>
         /\ emitted'[1].event = "generateCode"
         /\ emitted'[1].data \notin DOMAIN gameRooms
         /\ emitted'[1].data \in DOMAIN gameRooms']_vars

\* A createRoom acknowledged while another room is registered.
C2_Witness ==
    /\ last.op = "createRoom"
    /\ Len(emitted) = 1 /\ emitted[1].data = last.arg
    /\ \E c \in DOMAIN gameRooms : c # last.arg

\* ---- C3 (SpecUpdate)
\* C3: createRoom by an Unaffiliated socket adds exactly one room whose member
\* set is {caller}, sets the caller's affiliation to the new code, acknowledges
\* with generateCode(code) to the caller alone, and leaves every other room as
\* it was.
C3_CreateRoom ==
    [][(last'.op = "createRoom" /\ upData[last'.socket].roomCode = NoCode) =>
         LET caller == last'.socket
             code == upData'[caller].roomCode
         IN  /\ code # NoCode
             /\ code \notin DOMAIN gameRooms
             /\ DOMAIN gameRooms' = (DOMAIN gameRooms) \cup {code}
             /\ Cardinality(DOMAIN gameRooms') = Cardinality(DOMAIN gameRooms) + 1
             /\ gameRooms'[code].players = {caller}
             /\ \A c \in DOMAIN gameRooms : gameRooms'[c] = gameRooms[c]
             /\ \A s \in Sockets \ {caller} : upData'[s] = upData[s]
             /\ Len(emitted') = 1
             /\ emitted'[1].event = "generateCode"
             /\ emitted'[1].to = {caller}
             /\ emitted'[1].data = code]_vars

\* A room just created beside a room that has another member and a wishlist.
C3_Witness ==
    /\ last.op = "createRoom"
    /\ last.arg \in DOMAIN gameRooms
    /\ gameRooms[last.arg].players = {last.socket}
    /\ upData[last.socket].roomCode = last.arg
    /\ \E c \in DOMAIN gameRooms :
         /\ c # last.arg
         /\ last.socket \notin gameRooms[c].players
         /\ gameRooms[c].wishlist = <<"apple", "pear">>

\* ---- C4 (SpecUpdate)
\* C4: in every reachable state (each follows a completed handler) no
\* registered room has an empty member set.
C4_NoEmptyRoom == \A c \in DOMAIN gameRooms : gameRooms[c].players # {}

\* The last member of a room has just disconnected and the room is gone, while
\* another room stays registered.
C4_Witness ==
    /\ last.op = "disconnecting"
    /\ last.arg # NoCode
    /\ last.arg \notin DOMAIN gameRooms
    /\ DOMAIN gameRooms # {}

\* ---- C5 (SpecUpdate)
\* C5: when a socket with affiliation c disconnects it leaves room c's member
\* set; if nobody remains, room c is removed and the registry has one key
\* less; if members remain, room c stays with its wishlist and the remaining
\* members; every other room is as it was.
C5_Disconnect ==
    [][(last'.op = "disconnecting" /\ upData[last'.socket].roomCode # NoCode) =>
         LET s == last'.socket
             c == upData[s].roomCode
         IN  /\ c \in DOMAIN gameRooms
             /\ ~last'.threw
             /\ IF gameRooms[c].players \ {s} = {}
                THEN /\ DOMAIN gameRooms' = (DOMAIN gameRooms) \ {c}
                     /\ Cardinality(DOMAIN gameRooms') = Cardinality(DOMAIN gameRooms) - 1
                ELSE /\ DOMAIN gameRooms' = DOMAIN gameRooms
                     /\ gameRooms'[c].players = gameRooms[c].players \ {s}
                     /\ gameRooms'[c].wishlist = gameRooms[c].wishlist
             /\ \A d \in (DOMAIN gameRooms) \ {c} : gameRooms'[d] = gameRooms[d]]_vars

\* A member has just disconnected from a room that keeps another member and
\* its written wishlist.
C5_Witness ==
    /\ last.op = "disconnecting"
    /\ last.arg \in DOMAIN gameRooms
    /\ last.socket \notin gameRooms[last.arg].players
    /\ gameRooms[last.arg].players # {}
    /\ gameRooms[last.arg].wishlist = <<"apple", "pear">>

\* ---- C6 (SpecUpdate)
\* C6: updateWishlist(items) by a socket affiliated to room c makes items the
\* wishlist of room c, whatever it was before, and emits one
\* wishlistUpdated(items) that reaches every connected socket that is in room
\* c's member set or affiliated to c, the sender included.
C6_UpdateWishlist ==
    [][(last'.op = "updateWishlist" /\ upData[last'.socket].roomCode # NoCode) =>
         LET s == last'.socket
             c == upData[s].roomCode
             items == last'.arg
         IN  /\ c \in DOMAIN gameRooms'
             /\ gameRooms'[c].wishlist = items
             /\ gameRooms'[c].players = gameRooms[c].players
             /\ Len(emitted') = 1
             /\ emitted'[1].event = "wishlistUpdated"
             /\ emitted'[1].data = items
             /\ s \in emitted'[1].to
             /\ \A m \in Sockets :
                  (upStatus[m] = "connected"
                     /\ (m \in gameRooms[c].players \/ upData[m].roomCode = c))
                      => m \in emitted'[1].to]_vars

\* A wishlist written in a room with two members, both of whom got the update.
C6_Witness ==
    /\ last.op = "updateWishlist"
    /\ upData[last.socket].roomCode \in DOMAIN gameRooms
    /\ last.arg = <<"apple">>
    /\ gameRooms[upData[last.socket].roomCode].wishlist = <<"apple">>
    /\ Cardinality(gameRooms[upData[last.socket].roomCode].players) >= 2
    /\ Len(emitted) = 1
    /\ gameRooms[upData[last.socket].roomCode].players \subseteq emitted[1].to

\* ---- C7 (SpecUpdate)
\* C7: updateWishlist by an Unaffiliated socket changes no room, no
\* affiliation and no delivery group, and emits nothing to anyone.
C7_OrphanUpdateDropped ==
    [][(last'.op = "updateWishlist" /\ upData[last'.socket].roomCode = NoCode) =>
         /\ gameRooms' = gameRooms
         /\ upData' = upData
         /\ upRooms' = upRooms
         /\ emitted' = <<>>]_vars

\* An orphan update was dropped while a room with a member is registered.
C7_Witness ==
    /\ last.op = "updateWishlist"
    /\ upData[last.socket].roomCode = NoCode
    /\ upStatus[last.socket] = "connected"
    /\ DOMAIN gameRooms # {}
    /\ emitted = <<>>

C9_ChatFanOut ==
    [][(last'.op = "chat:sendMessage" /\ last'.arg.roomName \in chatRooms[last'.socket]) =>
         LET A == last'.socket
             R == last'.arg.roomName
         IN  /\ Len(emitted') = 1
             /\ emitted'[1].event = "broadcastMessage"
             /\ emitted'[1].data.id = A
             /\ emitted'[1].data.message = last'.arg.message
             /\ A \notin emitted'[1].to
             /\ \A B \in ChatSockets \ {A} :
                  (chatStatus[B] = "connected" /\ R \in chatRooms[B])
                      => B \in emitted'[1].to]_vars

\* ---- C10 (SpecChat)
\* C10: a sendMessage that names a room the sender has not joined on the chat
\* namespace delivers broadcastMessage to no socket.
C10_SendRequiresMembership ==
    [][(last'.op = "chat:sendMessage" /\ last'.arg.roomName \notin chatRooms[last'.socket]) =>
         \A i \in 1..Len(emitted') :
             emitted'[i].event = "broadcastMessage" => emitted'[i].to = {}]_vars

\* ---- C11 (SpecChat)
\* C11: on joinVoiceRoom(code) by socket J exactly two emissions fire, in this
\* order: newVoicePeer naming J, which reaches every other connected member of
\* the room and not J; then existingVoicePeers to J alone, whose content is
\* the room's connected members minus J.
C11_VoiceJoinEmits ==
    [][last'.op = "chat:joinVoiceRoom" =>
         LET J == last'.socket
             members == {s \in ChatSockets :
                           chatStatus'[s] = "connected" /\ last'.arg \in chatRooms'[s]}
         IN  /\ Len(emitted') = 2
             /\ emitted'[1].event = "newVoicePeer"
             /\ emitted'[1].data = J
             /\ emitted'[1].to = members \ {J}
             /\ emitted'[2].event = "existingVoicePeers"
             /\ emitted'[2].to = {J}
             /\ emitted'[2].data = members \ {J}]_vars

\* ---- C12 (SpecChat)
\* C12 as stated: when a socket issues joinVoiceRoom for a room that has no
\* other member, nothing is delivered to any socket, the joiner included.
C12_AloneNoNotifications ==
    [][(/\ last'.op = "chat:joinVoiceRoom"
        /\ \A s \in ChatSockets \ {last'.socket} :
             ~(chatStatus[s] = "connected" /\ last'.arg \in chatRooms[s])) =>
         \A i \in 1..Len(emitted') : emitted'[i].to = {}]_vars

\* C12 amended: when a socket J issues joinVoiceRoom for a room that has no
\* other member, newVoicePeer is delivered to no socket, and J alone receives
\* one existingVoicePeers whose list is empty.
C12_AloneEmptyPeers ==
    [][(/\ last'.op = "chat:joinVoiceRoom"
        /\ \A s \in ChatSockets \ {last'.socket} :
             ~(chatStatus[s] = "connected" /\ last'.arg \in chatRooms[s])) =>
         /\ Len(emitted') = 2
         /\ emitted'[1].event = "newVoicePeer"
         /\ emitted'[1].to = {}
         /\ emitted'[2].event = "existingVoicePeers"
         /\ emitted'[2].to = {last'.socket}
         /\ emitted'[2].data = {}]_vars

\* A socket has just joined the voice room of a code alone while another
\* socket is connected outside that room.
C12_Witness ==
    /\ last.op = "chat:joinVoiceRoom"
    /\ last.arg \in ChatCodes
    /\ \E s \in ChatSockets \ {last.socket} :
         chatStatus[s] = "connected" /\ last.arg \notin chatRooms[s]
    /\ \A s \in ChatSockets \ {last.socket} : last.arg \notin chatRooms[s]
    /\ Len(emitted) = 2
    /\ emitted[1].to = {}
    /\ emitted[2].to = {last.socket}
    /\ emitted[2].data = {}

\* ---- C13 (SpecUpdate)
\* C13: a socket's affiliation is empty when it connects, is set only by its
\* own successful createRoom or joinRoom, and once it is a code it stays that
\* code for as long as the socket is connected.
C13_AffiliationStateMachine ==
    [][\A s \in Sockets :
         /\ (upStatus[s] = "idle" /\ upStatus'[s] = "connected")
               => upData'[s].roomCode = NoCode
         /\ (upStatus[s] = "connected" /\ upData'[s].roomCode # upData[s].roomCode)
               => /\ last'.socket = s
                  /\ last'.op \in {"createRoom", "joinRoom"}
                  /\ upData'[s].roomCode \in DOMAIN gameRooms'
         /\ (upStatus[s] = "connected" /\ upStatus'[s] = "connected"
               /\ upData[s].roomCode # NoCode)
               => upData'[s].roomCode = upData[s].roomCode]_vars

\* ---- C14 (SpecUpdate)
\* C14: in every reachable state each socket is in the member set of at most
\* one registered room, and a socket is in the member set of room c exactly
\* when it is connected and its affiliation is c.
C14_MembershipConsistent ==
    \A s \in Sockets :
        /\ Cardinality({c \in DOMAIN gameRooms : s \in gameRooms[c].players}) <= 1
        /\ \A c \in DOMAIN gameRooms :
             s \in gameRooms[c].players
                <=> (upStatus[s] = "connected" /\ upData[s].roomCode = c)

\* ---- C15 (SpecUpdate)
\* C15: in every reachable state the affiliation of every connected socket is
\* empty or a key of the registry, so the disconnecting handler and
\* updateWishlist always find the room, and no handler has thrown.
C15_AffiliationRegistered ==
    /\ ~last.threw
    /\ \A s \in Sockets :
         (upStatus[s] = "connected" /\ upData[s].roomCode # NoCode)
            => upData[s].roomCode \in DOMAIN gameRooms

\* A member of a room has just disconnected while another connected socket is
\* still affiliated to that room.
C15_Witness ==
    /\ last.op = "disconnecting"
    /\ ~last.threw
    /\ last.arg \in DOMAIN gameRooms
    /\ \E s \in Sockets \ {last.socket} :
         upStatus[s] = "connected" /\ upData[s].roomCode = last.arg

\* ---- C16 (SpecUpdate)
\* C16: a successful joinRoom(c) by a socket that is already in room c's
\* member set (it joined c before, or created c) leaves that member set and the
\* member count as they were; and when a socket affiliated to c disconnects,
\* it is no longer in room c's member set, the count is the one without it,
\* and room c is removed if that count is zero.
C16_AddIdempotent ==
    [][/\ (/\ last'.op = "joinRoom"
           /\ last'.arg \in DOMAIN gameRooms
           /\ last'.socket \in gameRooms[last'.arg].players)
          => /\ last'.arg \in DOMAIN gameRooms'
             /\ gameRooms'[last'.arg].players = gameRooms[last'.arg].players
       /\ (/\ last'.op = "disconnecting"
           /\ upData[last'.socket].roomCode \in DOMAIN gameRooms)
          => LET s == last'.socket
                 c == upData[s].roomCode
             IN  IF gameRooms[c].players \ {s} = {}
                 THEN c \notin DOMAIN gameRooms'
                 ELSE /\ c \in DOMAIN gameRooms'
                      /\ s \notin gameRooms'[c].players
                      /\ Cardinality(gameRooms'[c].players)
                           = Cardinality(gameRooms[c].players \ {s})]_vars

\* The only socket that ever connected has just joined a registered room: it
\* created that room, so this join adds it a second time, and it is counted once.
C16_Witness ==
    /\ last.op = "joinRoom"
    /\ last.arg \in DOMAIN gameRooms
    /\ \A s \in Sockets \ {last.socket} : upStatus[s] = "idle"
    /\ upData[last.socket].roomCode = last.arg
    /\ gameRooms[last.arg].players = {last.socket}

\* ---- C17 (SpecUpdate)
\* C17: every registered room has at least one connected socket in its member
\* set; so once no socket is connected the registry is empty.
C17_NoRoomLeak ==
    /\ \A c \in DOMAIN gameRooms :
         \E s \in gameRooms[c].players : upStatus[s] = "connected"
    /\ (\A s \in Sockets : upStatus[s] # "connected") => DOMAIN gameRooms = {}

\* ---- C18 (SpecUpdate)
\* C18: the wishlistUpdated that an updateWishlist in room c emits is
\* delivered only to sockets whose affiliation is c.
C18_WishlistIsolation ==
    [][last'.op = "updateWishlist" =>
         \A i \in 1..Len(emitted') :
             emitted'[i].event = "wishlistUpdated" =>
                 \A m \in emitted'[i].to :
                     upData[m].roomCode = upData[last'.socket].roomCode]_vars

\* ---- C19 (SpecRegistryChat)
\* A step of a /chat handler (setName, generateCode, sendMessage,
\* joinVoiceRoom, disconnect) leaves the registry as it was: the same codes,
\* and for every code the same players and the same wishlist. A generateCode
\* or joinVoiceRoom step puts the caller in the chat room named by its
\* argument, whether or not that string is a key of the registry.
C19_ChatLeavesRegistry ==
    [][last'.op \in {"chat:setName", "chat:generateCode", "chat:sendMessage",
                     "chat:joinVoiceRoom", "chat:disconnect"} =>
         /\ DOMAIN gameRooms' = DOMAIN gameRooms
         /\ \A c \in DOMAIN gameRooms :
              /\ gameRooms'[c].players = gameRooms[c].players
              /\ gameRooms'[c].wishlist = gameRooms[c].wishlist
         /\ last'.op \in {"chat:generateCode", "chat:joinVoiceRoom"} =>
              last'.arg \in chatRooms'[last'.socket]]_vars

\* A chat socket has just joined the chat room of a code that is not
\* registered, while the registry holds a room with a member and a wishlist.
C19_Witness ==
    /\ last.op = "chat:generateCode"
    /\ last.arg \in ChatCodes
    /\ last.arg \notin DOMAIN gameRooms
    /\ last.arg \in chatRooms[last.socket]
    /\ \E c \in DOMAIN gameRooms :
          /\ gameRooms[c].players # {}
          /\ gameRooms[c].wishlist = <<"apple", "pear">>

\* ---- C20 (SpecVoice)
\* Full-mesh voice bootstrap. When a connection J joins the voice room R for
\* the first time, every connection A that joined R earlier and is still
\* connected is introduced to J in that step: A receives the newVoicePeer
\* naming J, and A is in the existingVoicePeers list sent to J. (In SpecVoice
\* the members of a code's chat room are its voice joiners.)
C20_FullMesh ==
    [][(/\ last'.op = "chat:joinVoiceRoom"
        /\ last'.arg \notin chatRooms[last'.socket]) =>
         \A A \in ChatSockets \ {last'.socket} :
            (chatStatus[A] = "connected" /\ last'.arg \in chatRooms[A]) =>
                /\ emitted'[1].event = "newVoicePeer"
                /\ emitted'[1].data = last'.socket
                /\ A \in emitted'[1].to
                /\ emitted'[2].event = "existingVoicePeers"
                /\ emitted'[2].to = {last'.socket}
                /\ A \in emitted'[2].data]_vars

====
